---- MODULE Spec2Model ----
(***************************************************************************)
(* Data Sweeper (src/src/growth_mindset_challenge/app.py): a Streamlit     *)
(* script that is re-run from its first line on every user interaction.    *)
(* One action of this model is one interaction together with the whole     *)
(* script run it triggers.  Strings that the script takes apart (file      *)
(* names, extensions) are sequences of one-character strings.  A table is  *)
(* a record of column names, column dtypes and rows, all positional.       *)
(***************************************************************************)
EXTENDS Integers, Sequences, FiniteSets, TLC

VARIABLES
    uploaded_files,   \* the batch held by st.file_uploader
    widgets,          \* per file: the values of its widgets
    clicked,          \* the button whose click triggered the current run
    screen,           \* what the current run of the script rendered
    lastClean         \* history: the last cleaning button the user pressed

vars == <<uploaded_files, widgets, clicked, screen, lastClean>>

----------------------------------------------------------------------------
(* Bounds of the model                                                     *)

MaxFiles == 2     \* files in one uploaded batch
MaxRows == 3      \* data rows of an uploaded table
MaxSegs == 3      \* pieces a file name is put together from
MaxCells == 4     \* cells (rows times columns) of an uploaded table

----------------------------------------------------------------------------
(* Characters and strings                                                  *)

lower_char(c) ==
    CASE c = "C" -> "c"
      [] c = "S" -> "s"
      [] c = "V" -> "v"
      [] c = "X" -> "x"
      [] c = "L" -> "l"
      [] OTHER -> c

\* str.lower()
lower(s) == [i \in 1..Len(s) |-> lower_char(s[i])]

\* the greatest index of a "." in p, 0 when there is none (str.rfind + 1)
RECURSIVE rfind_dot(_, _)
rfind_dot(p, i) ==
    IF i = 0 THEN 0
    ELSE IF p[i] = "." THEN i ELSE rfind_dot(p, i - 1)

\* os.path.splitext(p)[-1] for a name without directory separators: the
\* text from the last dot on, unless only dots precede that dot
splitext_ext(p) ==
    LET dotIndex == rfind_dot(p, Len(p)) IN
    IF dotIndex > 0 /\ \E k \in 1..(dotIndex - 1) : p[k] # "."
    THEN SubSeq(p, dotIndex, Len(p))
    ELSE <<>>

\* os.path.splitext(p)[0]
splitext_root(p) == SubSeq(p, 1, Len(p) - Len(splitext_ext(p)))

StartsWith(s, old) ==
    /\ Len(old) <= Len(s)
    /\ SubSeq(s, 1, Len(old)) = old

\* str.replace(old, new) for a non-empty old: every non-overlapping
\* occurrence, left to right, compared case-sensitively
RECURSIVE str_replace(_, _, _)
str_replace(s, old, new) ==
    IF Len(s) = 0 THEN <<>>
    ELSE IF StartsWith(s, old)
         THEN new \o str_replace(SubSeq(s, Len(old) + 1, Len(s)), old, new)
         ELSE <<s[1]>> \o str_replace(Tail(s), old, new)

DotCsv == <<".", "c", "s", "v">>
DotXlsx == <<".", "x", "l", "s", "x">>

\* line 17
file_ext(name) == lower(splitext_ext(name))

----------------------------------------------------------------------------
(* Cells and tables                                                        *)

\* a cell: a number n/d, a text token, or the missing marker (NaN)
NaN == [k |-> "nan", n |-> 0, d |-> 1]
Num(v) == [k |-> "num", n |-> v, d |-> 1]
Txt(v) == [k |-> "txt", n |-> v, d |-> 1]

EmptyTable == [columns |-> <<>>, dtypes |-> <<>>, rows |-> <<>>]

\* the positions in S, ascending
RECURSIVE Ascending(_)
Ascending(S) ==
    IF S = {} THEN <<>>
    ELSE LET lo == CHOOSE x \in S : \A y \in S : x <= y
         IN  <<lo>> \o Ascending(S \ {lo})

RECURSIVE GCD(_, _)
GCD(a, b) == IF b = 0 THEN a ELSE GCD(b, a % b)

Abs(x) == IF x < 0 THEN -x ELSE x

\* the number n/d (d > 0) as a cell, in lowest terms
Frac(n, d) ==
    LET g == GCD(Abs(n), d) IN
    [k |-> "num", n |-> n \div g, d |-> d \div g]

RECURSIVE SumCells(_)
SumCells(cells) ==
    IF cells = <<>> THEN Num(0)
    ELSE LET h == Head(cells)
             t == SumCells(Tail(cells))
         IN  Frac(h.n * t.d + t.n * h.d, h.d * t.d)

\* a mean that divides by the number of cells, missing ones included
mean_over_all(cells) ==
    LET present == SelectSeq(cells, LAMBDA c : c.k = "num")
        total == SumCells(present)
    IN  IF present = <<>> THEN NaN
        ELSE Frac(total.n, total.d * Len(cells))

\* Series.mean(): the mean of the non-missing values, NaN when there is none
mean(cells) ==
    LET present == SelectSeq(cells, LAMBDA c : c.k = "num")
        total == SumCells(present)
    IN  IF present = <<>> THEN NaN
        ELSE Frac(total.n, total.d * Len(present))

Column(df, j) == [i \in 1..Len(df.rows) |-> df.rows[i][j]]

IndexOf(seq, x) == CHOOSE j \in 1..Len(seq) : seq[j] = x

\* pd.read_csv / pd.read_excel on readable content: a column whose cells
\* are all numbers or empty (and that has a row) gets a numeric dtype, any
\* other column holds its cells as text
ParseTable(content) ==
    LET nrows == Len(content.cells)
        ncols == Len(content.header)
        numeric(j) == /\ nrows > 0
                      /\ \A i \in 1..nrows : content.cells[i][j].k \in {"num", "nan"}
        parsed(j, c) == IF numeric(j) \/ c.k # "num" THEN c ELSE Txt(c.n)
    IN  [columns |-> content.header,
         dtypes |-> [j \in 1..ncols |-> IF numeric(j) THEN "number" ELSE "object"],
         rows |-> [i \in 1..nrows |->
                      [j \in 1..ncols |-> parsed(j, content.cells[i][j])]]]

\* lines 17-30: the reader is chosen by the extension; the read raises when
\* the bytes are not of that format, or when a CSV has no column
ReadFile(file) ==
    LET ext == file_ext(file.name) IN
    IF ext = DotCsv
    THEN IF file.fmt = "csv" /\ file.header # <<>>
         THEN [status |-> "ok", df |-> ParseTable(file)]
         ELSE [status |-> "error", df |-> EmptyTable]
    ELSE IF ext = DotXlsx
         THEN IF file.fmt = "xlsx"
              THEN [status |-> "ok", df |-> ParseTable(file)]
              ELSE [status |-> "error", df |-> EmptyTable]
         ELSE [status |-> "unsupported", df |-> EmptyTable]

\* df[labels]: the columns named by labels, in the order of labels
Select(df, labels) ==
    LET at(k) == IndexOf(df.columns, labels[k]) IN
    [columns |-> labels,
     dtypes |-> [k \in 1..Len(labels) |-> df.dtypes[at(k)]],
     rows |-> [i \in 1..Len(df.rows) |->
                  [k \in 1..Len(labels) |-> df.rows[i][at(k)]]]]

\* a projection without the fallback for an empty selection
ProjectAlways(df, selected_columns) == Select(df, selected_columns)

\* line 43
Project(df, selected_columns) ==
    IF selected_columns # <<>> THEN Select(df, selected_columns) ELSE df

RECURSIVE KeepFirst(_, _)
KeepFirst(rows, kept) ==
    IF rows = <<>> THEN kept
    ELSE IF \E j \in 1..Len(kept) : kept[j] = Head(rows)
         THEN KeepFirst(Tail(rows), kept)
         ELSE KeepFirst(Tail(rows), Append(kept, Head(rows)))

\* drop_duplicates(keep="last")
drop_duplicates_keep_last(df) ==
    LET keep == {i \in 1..Len(df.rows) :
                    \A j \in (i + 1)..Len(df.rows) : df.rows[j] # df.rows[i]}
        pos == Ascending(keep)
    IN  [df EXCEPT !.rows = [k \in 1..Len(pos) |-> df.rows[pos[k]]]]

\* line 51: df.drop_duplicates(inplace=True)
drop_duplicates(df) == [df EXCEPT !.rows = KeepFirst(df.rows, <<>>)]

\* every column, whatever its dtype
all_cols(df) == {j \in 1..Len(df.columns) : TRUE}

\* line 55: df.select_dtypes(include=["number"]).columns, as positions
numeric_cols(df) == {j \in 1..Len(df.columns) : df.dtypes[j] = "number"}

\* line 57: df[numeric_cols] = df[numeric_cols].fillna(df[numeric_cols].mean())
fillna_mean(df) ==
    LET m(j) == mean(Column(df, j)) IN
    [df EXCEPT !.rows =
        [i \in 1..Len(df.rows) |->
            [j \in 1..Len(df.columns) |->
                IF j \in numeric_cols(df) /\ df.rows[i][j].k = "nan"
                THEN m(j) ELSE df.rows[i][j]]]]

\* the table itself, its non-numeric columns included
numeric_df_all(df) == df

\* line 65: df.select_dtypes(include="number")
numeric_df(df) ==
    LET pos == Ascending(numeric_cols(df)) IN
    Select(df, [k \in 1..Len(pos) |-> df.columns[pos[k]]])

\* line 67: numeric_df.iloc[:, :2]
FirstTwo(df) == Select(df, SubSeq(df.columns, 1, 2))

----------------------------------------------------------------------------
(* One run of the script                                                   *)

\* a rendered st.error / st.success / st.warning; file is the position in
\* the batch of the file being processed, 0 outside the loop
Msg(level, text, file) == [level |-> level, text |-> text, file |-> file]

NoChart == [rendered |-> FALSE, data |-> EmptyTable]
NoDownload ==
    [offered |-> FALSE, file_name |-> <<>>, mime |-> "", format |-> "",
     data |-> EmptyTable]

\* what the run rendered for a file that did not pass the read
Skipped ==
    [steps |-> {}, ingested |-> EmptyTable, projected |-> EmptyTable,
     cleaned |-> EmptyTable, chart |-> NoChart, download |-> NoDownload]

\* lines 47-60: the table after the cleaning block and what the block reported
CleanStep(df, clean, button, i) ==
    IF clean /\ button = "dedupe"
    THEN [df |-> drop_duplicates(df), ran |-> TRUE,
          msgs |-> <<Msg("success", "Duplicates Removed!", i)>>]
    ELSE IF clean /\ button = "fill"
    THEN IF numeric_cols(df) # {}
         THEN [df |-> fillna_mean(df), ran |-> TRUE,
               msgs |-> <<Msg("success", "Missing Values have been filled!", i)>>]
         ELSE [df |-> df, ran |-> TRUE,
               msgs |-> <<Msg("warning", "No numeric columns found to fill missing values.", i)>>]
    ELSE [df |-> df, ran |-> FALSE, msgs |-> <<>>]

\* lines 64-69: the table after the visualization block (the block assigns
\* nothing to df), the chart and what the block reported
VisualizeStep(df, viz, i) ==
    IF viz
    THEN IF Len(numeric_df(df).columns) >= 2
         THEN [df |-> df, msgs |-> <<>>,
               chart |-> [rendered |-> TRUE, data |-> FirstTwo(numeric_df(df))]]
         ELSE [df |-> df, chart |-> NoChart,
               msgs |-> <<Msg("warning", "Not enough numerical columns for visualization.", i)>>]
    ELSE [df |-> df, chart |-> NoChart, msgs |-> <<>>]

\* lines 80 and 85
output_name(name, ext, new_ext) == str_replace(name, ext, new_ext)

\* lines 75-98; writer_ok: whether pd.ExcelWriter / to_excel completes
ConvertStep(df, name, ext, conversion_type, button, writer_ok, i) ==
    IF button # "convert" THEN [download |-> NoDownload, msgs |-> <<>>]
    ELSE IF conversion_type = "CSV"
    THEN [download |-> [offered |-> TRUE, file_name |-> output_name(name, ext, DotCsv),
                        mime |-> "text/csv", format |-> "csv", data |-> df],
          msgs |-> <<Msg("success", "successfully converted and ready for download!", i)>>]
    ELSE IF writer_ok
    THEN [download |-> [offered |-> TRUE, file_name |-> output_name(name, ext, DotXlsx),
                        mime |-> "application/vnd.openxmlformats-officedocument.spreadsheetml.sheet",
                        format |-> "xlsx", data |-> df],
          msgs |-> <<Msg("success", "successfully converted and ready for download!", i)>>]
    ELSE [download |-> NoDownload,
          msgs |-> <<Msg("error", "Error during file conversion", i)>>]

\* lines 17-98: the loop body for the file at position i; button is the
\* button of this file that reads as pressed in this run ("none" if none)
ProcessFile(i, file, w, button, writer_ok) ==
    LET read == ReadFile(file) IN
    IF read.status = "unsupported"
    THEN [ok |-> FALSE, msgs |-> <<Msg("error", "Unsupported file type", i)>>, res |-> Skipped]
    ELSE IF read.status = "error"
    THEN [ok |-> FALSE, msgs |-> <<Msg("error", "Error reading", i)>>, res |-> Skipped]
    ELSE
      LET df1 == Project(read.df, w.selected_columns)
          c == CleanStep(df1, w.clean, button, i)
          v == VisualizeStep(c.df, w.viz, i)
          e == ConvertStep(v.df, file.name, file_ext(file.name), w.conversion_type,
                           button, writer_ok, i)
      IN  [ok |-> TRUE,
           msgs |-> c.msgs \o v.msgs \o e.msgs,
           res |-> [steps |-> {"preview", "project"}
                                \cup (IF c.ran THEN {"clean"} ELSE {})
                                \cup (IF w.viz THEN {"visualize"} ELSE {})
                                \cup (IF button = "convert" THEN {"export"} ELSE {}),
                    ingested |-> read.df, projected |-> df1, cleaned |-> c.df,
                    chart |-> v.chart, download |-> e.download]]

ButtonFor(click, i) == IF click.file = i THEN click.button ELSE "none"

\* a loop that a failing file ends (break in place of continue)
RECURSIVE LoopBreak(_, _, _, _, _, _)
LoopBreak(i, files, ws, click, writer_ok, acc) ==
    IF i > Len(files) THEN acc
    ELSE LET p == ProcessFile(i, files[i], ws[i], ButtonFor(click, i), writer_ok)
             next == [msgs |-> acc.msgs \o p.msgs, files |-> Append(acc.files, p.res)]
         IN  IF p.ok THEN LoopBreak(i + 1, files, ws, click, writer_ok, next) ELSE next

\* lines 16-98: the for loop from position i on; a file that fails the read
\* is reported and the loop continues with the next file
RECURSIVE Loop(_, _, _, _, _, _)
Loop(i, files, ws, click, writer_ok, acc) ==
    IF i > Len(files) THEN acc
    ELSE LET p == ProcessFile(i, files[i], ws[i], ButtonFor(click, i), writer_ok)
         IN  Loop(i + 1, files, ws, click, writer_ok,
                  [msgs |-> acc.msgs \o p.msgs, files |-> Append(acc.files, p.res)])

AllProcessed == Msg("success", "All files processed successfully!", 0)

\* the script with its last line indented into the if of line 15
RunScriptIndented(files, ws, click, writer_ok) ==
    IF files # <<>>
    THEN LET body == Loop(1, files, ws, click, writer_ok, [msgs |-> <<>>, files |-> <<>>])
         IN  [msgs |-> Append(body.msgs, Msg("success", "All files processed successfully!", 0)),
              files |-> body.files]
    ELSE [msgs |-> <<>>, files |-> <<>>]

\* lines 15-100: the whole script
RunScript(files, ws, click, writer_ok) ==
    LET body == IF files # <<>>
                THEN Loop(1, files, ws, click, writer_ok, [msgs |-> <<>>, files |-> <<>>])
                ELSE [msgs |-> <<>>, files |-> <<>>]
    IN  [msgs |-> Append(body.msgs, AllProcessed), files |-> body.files]

----------------------------------------------------------------------------
(* Widgets and interactions                                                *)

NoClick == [button |-> "none", file |-> 0]
NoClean == [op |-> "none", file |-> 0]

\* lines 42, 47, 64, 73: the widgets of a file as first rendered
DefaultWidgets(file) ==
    [selected_columns |-> ReadFile(file).df.columns,
     clean |-> FALSE, viz |-> FALSE, conversion_type |-> "CSV"]

\* the widgets of a file are rendered only when the file passed the read
Rendered(f) ==
    /\ f \in 1..Len(uploaded_files)
    /\ ReadFile(uploaded_files[f]).status = "ok"

Options(f) == ReadFile(uploaded_files[f]).df.columns

InSeq(seq, x) == \E k \in 1..Len(seq) : seq[k] = x

\* the script re-runs with the widget values ws and the click
Rerun(ws, click, writer_ok) ==
    /\ widgets' = ws
    /\ clicked' = click
    /\ screen' = RunScript(uploaded_files, ws, click, writer_ok)
    /\ UNCHANGED uploaded_files

\* line 42: the user adds a column to the multiselect (it goes last)
AddColumn(f, c) ==
    /\ Rendered(f)
    /\ InSeq(Options(f), c)
    /\ ~InSeq(widgets[f].selected_columns, c)
    /\ Rerun([widgets EXCEPT ![f].selected_columns = Append(@, c)], NoClick, TRUE)
    /\ lastClean' = IF lastClean.file = f THEN NoClean ELSE lastClean

\* line 42: the user removes a column from the multiselect
RemoveColumn(f, c) ==
    /\ Rendered(f)
    /\ InSeq(widgets[f].selected_columns, c)
    /\ Rerun([widgets EXCEPT ![f].selected_columns = SelectSeq(@, LAMBDA x : x # c)],
             NoClick, TRUE)
    /\ lastClean' = IF lastClean.file = f THEN NoClean ELSE lastClean

\* line 47
ToggleClean(f) ==
    /\ Rendered(f)
    /\ Rerun([widgets EXCEPT ![f].clean = ~@], NoClick, TRUE)
    /\ UNCHANGED lastClean

\* line 64
ToggleVisualization(f) ==
    /\ Rendered(f)
    /\ Rerun([widgets EXCEPT ![f].viz = ~@], NoClick, TRUE)
    /\ UNCHANGED lastClean

\* line 73
SetConversion(f, t) ==
    /\ Rendered(f)
    /\ t # widgets[f].conversion_type
    /\ Rerun([widgets EXCEPT ![f].conversion_type = t], NoClick, TRUE)
    /\ UNCHANGED lastClean

\* line 50: the button is rendered only while the Clean Data box is ticked
ClickRemoveDuplicates(f) ==
    /\ Rendered(f)
    /\ widgets[f].clean
    /\ Rerun(widgets, [button |-> "dedupe", file |-> f], TRUE)
    /\ lastClean' = [op |-> "dedupe", file |-> f]

\* line 54
ClickFillMissing(f) ==
    /\ Rendered(f)
    /\ widgets[f].clean
    /\ Rerun(widgets, [button |-> "fill", file |-> f], TRUE)
    /\ lastClean' = [op |-> "fill", file |-> f]

\* line 75
ClickConvert(f, writer_ok) ==
    /\ Rendered(f)
    /\ Rerun(widgets, [button |-> "convert", file |-> f], writer_ok)
    /\ UNCHANGED lastClean

ColNames == {"a", "b", "c"}

Next ==
    \/ \E f \in 1..MaxFiles, c \in ColNames : AddColumn(f, c)
    \/ \E f \in 1..MaxFiles, c \in ColNames : RemoveColumn(f, c)
    \/ \E f \in 1..MaxFiles : ToggleClean(f)
    \/ \E f \in 1..MaxFiles : ToggleVisualization(f)
    \/ \E f \in 1..MaxFiles, t \in {"CSV", "Excel"} : SetConversion(f, t)
    \/ \E f \in 1..MaxFiles : ClickRemoveDuplicates(f)
    \/ \E f \in 1..MaxFiles : ClickFillMissing(f)
    \/ \E f \in 1..MaxFiles, writer_ok \in BOOLEAN : ClickConvert(f, writer_ok)

\* the user has uploaded batch and the script has run once
Uploaded(batch) ==
    /\ uploaded_files = batch
    /\ widgets = [i \in 1..Len(batch) |-> DefaultWidgets(batch[i])]
    /\ clicked = NoClick
    /\ screen = RunScript(batch, [i \in 1..Len(batch) |-> DefaultWidgets(batch[i])],
                          NoClick, TRUE)
    /\ lastClean = NoClean

----------------------------------------------------------------------------
(* The uploads the model draws from                                        *)

SeqsUpTo(S, n) == UNION {[1..k -> S] : k \in 0..n}

\* file names: one to MaxSegs pieces put together
Pieces ==
    {<<"a">>, <<".", "c", "s", "v">>, <<".", "C", "S", "V">>,
     <<".", "x", "l", "s", "x">>, <<".", "X", "l", "s", "x">>, <<".", "t", "x", "t">>}

RECURSIVE Concat(_)
Concat(parts) == IF parts = <<>> THEN <<>> ELSE Head(parts) \o Concat(Tail(parts))

Names == {Concat(parts) : parts \in SeqsUpTo(Pieces, MaxSegs) \ {<<>>}}

File(name, fmt, header, cells) ==
    [name |-> name, fmt |-> fmt, header |-> header, cells |-> cells]

\* the cells a column of an uploaded table may hold
RawCells(c) ==
    CASE c = "a" -> {Num(1), Num(3), NaN}
      [] c = "b" -> {Num(1), Txt(0), NaN}
      [] OTHER -> {Num(1), Txt(0)}

Headers == {<<>>, <<"a">>, <<"a", "b">>, <<"a", "b", "c">>}

RowsOf(header) ==
    {r \in [1..Len(header) -> UNION {RawCells(c) : c \in ColNames}] :
        \A j \in 1..Len(header) : r[j] \in RawCells(header[j])}

Grids(header) ==
    UNION {[1..n -> RowsOf(header)] :
              n \in {m \in 0..MaxRows : m * Len(header) <= MaxCells /\ (header = <<>> => m = 0)}}

NameCsv == <<"a", ".", "c", "s", "v">>
NameXlsx == <<"b", ".", "X", "l", "s", "x">>
NameTxt == <<"c", ".", "t", "x", "t">>

\* one CSV file for every table within the bounds
TableFiles ==
    UNION {{File(NameCsv, "csv", h, g) : g \in Grids(h)} : h \in Headers}

\* one file with a one-cell table for every name, in either byte format
NameFiles ==
    {File(n, fmt, <<"a">>, <<(<<Num(1)>>)>>) : n \in Names, fmt \in {"csv", "xlsx"}}

\* the files of a batch: three names, each with CSV bytes, workbook bytes or
\* bytes that are neither, the readable ones holding the same small table
BatchCells == <<(<<Num(1)>>), <<NaN>>, <<Num(1)>>, <<Num(3)>> >>

BatchFiles ==
    {File(n, fmt, <<"a">>, BatchCells) :
        n \in {NameCsv, NameXlsx, NameTxt}, fmt \in {"csv", "xlsx", "bad"}}

\* the file uploader holds files of different names
Batches ==
    {b \in SeqsUpTo(BatchFiles, MaxFiles) :
        \A i, j \in 1..Len(b) : i # j => b[i].name # b[j].name}

Init == \E batch \in Batches : Uploaded(batch)
InitTable == \E file \in TableFiles : Uploaded(<<file>>)
InitName == \E file \in NameFiles : Uploaded(<<file>>)

Spec == Init /\ [][Next]_vars
SpecTable == InitTable /\ [][Next]_vars
SpecName == InitName /\ [][Next]_vars

----------------------------------------------------------------------------
(* Vocabulary of the properties                                            *)

FileIds == 1..Len(uploaded_files)

\* the name ends with ext when letter case is ignored
EndsWithCI(name, ext) ==
    /\ Len(name) > Len(ext)
    /\ lower(SubSeq(name, Len(name) - Len(ext) + 1, Len(name))) = ext

\* the file cannot be ingested: unsupported extension or unparsable content
Failing(file) ==
    \/ ~(EndsWithCI(file.name, DotCsv) \/ EndsWithCI(file.name, DotXlsx))
    \/ EndsWithCI(file.name, DotCsv) /\ (file.fmt # "csv" \/ file.header = <<>>)
    \/ EndsWithCI(file.name, DotXlsx) /\ file.fmt # "xlsx"

MsgsOf(f, level) ==
    {k \in 1..Len(screen.msgs) : screen.msgs[k].file = f /\ screen.msgs[k].level = level}

Reported(f, level, text) ==
    \E k \in MsgsOf(f, level) : screen.msgs[k].text = text

\* the steps the current run has enabled for a file that passed Ingest
EnabledSteps(f) ==
    {"preview", "project"}
        \cup (IF clicked.file = f /\ clicked.button \in {"dedupe", "fill"} THEN {"clean"} ELSE {})
        \cup (IF widgets[f].viz THEN {"visualize"} ELSE {})
        \cup (IF clicked.file = f /\ clicked.button = "convert" THEN {"export"} ELSE {})

Result(f) == screen.files[f]

Pressed(f, button) == clicked.file = f /\ clicked.button = button

----------------------------------------------------------------------------
(* C1 *)

----------------------------------------------------------------------------
(* C10 *)

----------------------------------------------------------------------------
(* C2 *)

\* the cleaning the user last asked for, applied to the projected table
CleanedAsAsked(f) ==
    IF lastClean.op = "dedupe" THEN drop_duplicates(Result(f).projected)
    ELSE IF numeric_cols(Result(f).projected) # {} THEN fillna_mean(Result(f).projected)
    ELSE Result(f).projected

\* C2: once the user has pressed Remove Duplicates or Fill Missing Values
\* for a file and has not changed its column selection since, the table
\* offered for download is the deduplicated / mean-filled table.
C2_ExportIsCleanedTable ==
    \A f \in FileIds :
        (/\ ~Failing(uploaded_files[f])
         /\ lastClean.file = f
         /\ Result(f).download.offered)
        => Result(f).download.data = CleanedAsAsked(f)

----------------------------------------------------------------------------
(* C3 *)

TargetExt(conversion_type) == IF conversion_type = "CSV" THEN DotCsv ELSE DotXlsx

\* C3: the name offered for download is the uploaded name with only its
\* final extension replaced by the extension of the target format.
C3_OutputNameSwapsExtension ==
    \A f \in FileIds :
        (~Failing(uploaded_files[f]) /\ Result(f).download.offered)
        => Result(f).download.file_name =
               splitext_root(uploaded_files[f].name) \o TargetExt(widgets[f].conversion_type)

----------------------------------------------------------------------------
(* C4 *)

\* the columns of a table that are in the selection, in the table's order
InTableOrder(df, selection) == SelectSeq(df.columns, LAMBDA c : InSeq(selection, c))

\* C4: for a non-empty selection, the projected table has exactly the
\* selected columns, in the order they have in the ingested table.
C4_ProjectKeepsTableOrder ==
    \A f \in FileIds :
        (~Failing(uploaded_files[f]) /\ widgets[f].selected_columns # <<>>)
        => Result(f).projected.columns =
               InTableOrder(Result(f).ingested, widgets[f].selected_columns)

----------------------------------------------------------------------------
(* C5 *)

\* C5: with an empty selection the projected table is the ingested table,
\* it goes unchanged to the later steps when no cleaning button is pressed,
\* and Project reports no error; and whatever the selection, no later step
\* receives a table without columns when the ingested table had a column.
C5_EmptySelectionIsNoOp ==
    \A f \in FileIds :
        ~Failing(uploaded_files[f]) =>
          /\ widgets[f].selected_columns = <<>> =>
                /\ Result(f).projected = Result(f).ingested
                /\ "clean" \notin Result(f).steps => Result(f).cleaned = Result(f).ingested
                /\ ("clean" \notin Result(f).steps /\ Result(f).download.offered)
                      => Result(f).download.data = Result(f).ingested
                /\ \A k \in MsgsOf(f, "error") :
                      screen.msgs[k].text = "Error during file conversion"
          /\ Len(Result(f).ingested.columns) >= 1 =>
                /\ Len(Result(f).projected.columns) >= 1
                /\ Len(Result(f).cleaned.columns) >= 1
                /\ Result(f).download.offered => Len(Result(f).download.data.columns) >= 1

\* an export of a table with two columns and a row under an empty selection
C5_Witness ==
    \E f \in FileIds :
        /\ ~Failing(uploaded_files[f])
        /\ widgets[f].selected_columns = <<>>
        /\ Len(Result(f).ingested.columns) >= 2
        /\ Len(Result(f).ingested.rows) >= 1
        /\ Result(f).download.offered
        /\ Result(f).download.data = Result(f).ingested

----------------------------------------------------------------------------
(* C6 *)

\* the positions of the rows that equal no earlier row
FirstOccurrences(rows) ==
    {i \in 1..Len(rows) : \A j \in 1..(i - 1) : rows[j] # rows[i]}

\* C6: Remove Duplicates leaves exactly the rows of the projected table
\* that equal no earlier row, in their order, with the columns untouched,
\* and removing duplicates from its result changes nothing.
C6_DeduplicateKeepsFirst ==
    \A f \in FileIds :
        (~Failing(uploaded_files[f]) /\ Pressed(f, "dedupe")) =>
          LET before == Result(f).projected
              after == Result(f).cleaned
              pos == Ascending(FirstOccurrences(before.rows))
          IN  /\ after.columns = before.columns
              /\ after.dtypes = before.dtypes
              /\ Len(after.rows) = Len(pos)
              /\ \A k \in 1..Len(pos) : after.rows[k] = before.rows[pos[k]]
              /\ \A i, j \in 1..Len(after.rows) : i # j => after.rows[i] # after.rows[j]
              /\ drop_duplicates(after) = after

\* a duplicate of the first row stood after a different row and was removed
C6_Witness ==
    \E f \in FileIds :
        /\ ~Failing(uploaded_files[f])
        /\ Pressed(f, "dedupe")
        /\ Len(Result(f).projected.rows) = 3
        /\ Result(f).projected.rows[1] = Result(f).projected.rows[3]
        /\ Result(f).projected.rows[1] # Result(f).projected.rows[2]
        /\ Result(f).cleaned.rows =
               <<Result(f).projected.rows[1], Result(f).projected.rows[2]>>

----------------------------------------------------------------------------
(* C7, C8 *)

\* the numeric columns of a table: those whose declared type is numeric
NumericColumns(df) == {j \in 1..Len(df.columns) : df.dtypes[j] = "number"}

\* the rows in which column j holds a value
Present(df, j) == {i \in 1..Len(df.rows) : df.rows[i][j].k # "nan"}

RECURSIVE SumAt(_, _, _)
SumAt(df, j, S) ==
    IF S = {} THEN 0
    ELSE LET i == CHOOSE x \in S : TRUE
         IN  df.rows[i][j].n + SumAt(df, j, S \ {i})

\* cell c is the number total / count
IsQuotient(c, total, count) ==
    /\ c.k = "num"
    /\ c.d > 0
    /\ c.n * count = total * c.d

SameShape(before, after) ==
    /\ after.columns = before.columns
    /\ after.dtypes = before.dtypes
    /\ Len(after.rows) = Len(before.rows)

\* in column j every gap holds the mean of the column's values as they were,
\* and every value is as it was
FilledWithMean(before, after, j) ==
    \A i \in 1..Len(before.rows) :
        IF i \in Present(before, j)
        THEN after.rows[i][j] = before.rows[i][j]
        ELSE IsQuotient(after.rows[i][j], SumAt(before, j, Present(before, j)),
                        Cardinality(Present(before, j)))

FillRan(f) == ~Failing(uploaded_files[f]) /\ Pressed(f, "fill")

\* C7 as stated: Fill Missing Values puts the column mean in every gap of
\* every numeric column, a column of gaps only included, so that afterwards
\* no numeric column has a gap and no value has changed.
C7_FillLeavesNoGap ==
    \A f \in FileIds :
        FillRan(f) =>
          /\ SameShape(Result(f).projected, Result(f).cleaned)
          /\ \A j \in NumericColumns(Result(f).projected) :
                /\ FilledWithMean(Result(f).projected, Result(f).cleaned, j)
                /\ Present(Result(f).cleaned, j) = 1..Len(Result(f).cleaned.rows)

\* C7 as amended: Fill Missing Values puts the column mean in every gap of
\* every numeric column that holds at least one value, so that afterwards
\* such a column has no gap and no value has changed; a numeric column of
\* gaps only is left as it is.  A column of an ingested table with a row is
\* numeric exactly when each of its cells is a number or a gap.
C7_FillUsesColumnMean ==
    \A f \in FileIds :
        /\ (~Failing(uploaded_files[f]) /\ Len(Result(f).ingested.rows) > 0) =>
              \A j \in 1..Len(Result(f).ingested.columns) :
                  j \in NumericColumns(Result(f).ingested)
                     <=> \A i \in 1..Len(Result(f).ingested.rows) :
                            Result(f).ingested.rows[i][j].k \in {"num", "nan"}
        /\ FillRan(f) =>
              /\ SameShape(Result(f).projected, Result(f).cleaned)
              /\ \A j \in NumericColumns(Result(f).projected) :
                    IF Present(Result(f).projected, j) # {}
                    THEN /\ FilledWithMean(Result(f).projected, Result(f).cleaned, j)
                         /\ Present(Result(f).cleaned, j) = 1..Len(Result(f).cleaned.rows)
                    ELSE Column(Result(f).cleaned, j) = Column(Result(f).projected, j)

\* the column [1, missing, 3] became [1, 2, 3]
C7_Witness ==
    \E f \in FileIds :
        /\ FillRan(f)
        /\ \E j \in NumericColumns(Result(f).projected) :
              /\ Column(Result(f).projected, j) = <<Num(1), NaN, Num(3)>>
              /\ Column(Result(f).cleaned, j) = <<Num(1), Num(2), Num(3)>>

\* C8: Fill Missing Values changes no cell of a non-numeric column; when
\* the projected table has no numeric column it reports the warning, not
\* the success notice, and leaves the table as it is.
C8_FillSparesOtherColumns ==
    \A f \in FileIds :
        FillRan(f) =>
          /\ SameShape(Result(f).projected, Result(f).cleaned)
          /\ \A j \in 1..Len(Result(f).projected.columns) :
                j \notin NumericColumns(Result(f).projected)
                   => Column(Result(f).cleaned, j) = Column(Result(f).projected, j)
          /\ NumericColumns(Result(f).projected) = {} =>
                /\ Reported(f, "warning", "No numeric columns found to fill missing values.")
                /\ ~Reported(f, "success", "Missing Values have been filled!")
                /\ Result(f).cleaned = Result(f).projected

\* the fill ran on a table whose only column is text with a gap
C8_Witness ==
    \E f \in FileIds :
        /\ FillRan(f)
        /\ Len(Result(f).ingested.columns) = 2
        /\ NumericColumns(Result(f).ingested) # {}
        /\ NumericColumns(Result(f).projected) = {}
        /\ \E i \in 1..Len(Result(f).projected.rows) : Result(f).projected.rows[i][1] = NaN
        /\ \E i \in 1..Len(Result(f).projected.rows) : Result(f).projected.rows[i][1] = Txt(0)
        /\ Reported(f, "warning", "No numeric columns found to fill missing values.")
        /\ Result(f).cleaned = Result(f).projected

----------------------------------------------------------------------------
(* C9 *)

\* C9: with Show Visualization ticked, a chart is rendered exactly when the
\* table after Project and Clean has two numeric columns or more, it shows
\* the first two of them in the table's column order, and otherwise the
\* warning is reported; the table that Export serialises is the table that
\* Visualize received.
C9_ChartOfFirstTwoNumeric ==
    \A f \in FileIds :
        ~Failing(uploaded_files[f]) =>
          LET df == Result(f).cleaned
              N == NumericColumns(df)
              chart == Result(f).chart
              warned == Reported(f, "warning", "Not enough numerical columns for visualization.")
          IN  /\ chart.rendered <=> (widgets[f].viz /\ Cardinality(N) >= 2)
              /\ warned <=> (widgets[f].viz /\ Cardinality(N) < 2)
              /\ chart.rendered =>
                    LET j1 == CHOOSE j \in N : \A x \in N : j <= x
                        j2 == CHOOSE j \in N \ {j1} : \A x \in N \ {j1} : j <= x
                    IN  /\ chart.data.columns = <<df.columns[j1], df.columns[j2]>>
                        /\ Len(chart.data.rows) = Len(df.rows)
                        /\ \A i \in 1..Len(df.rows) :
                              chart.data.rows[i] = <<df.rows[i][j1], df.rows[i][j2]>>
              /\ Result(f).download.offered => Result(f).download.data = df

\* a chart of the first and third column of a table whose second is text,
\* exported in the same run
C9_Witness ==
    \E f \in FileIds :
        /\ ~Failing(uploaded_files[f])
        /\ widgets[f].viz
        /\ Result(f).chart.rendered
        /\ Result(f).cleaned.dtypes = <<"number", "object", "number">>
        /\ Result(f).chart.data.columns =
               <<Result(f).cleaned.columns[1], Result(f).cleaned.columns[3]>>
        /\ Result(f).download.offered

====
